---- MODULE Spec2Model ----
(***************************************************************************)
(* A model of the retrieval-and-orchestration pipeline of the RAG notebook *)
(* src/test-weaviate.ipynb: split_into_chunks, retrieve_relevant_chunks    *)
(* and answer_question.                                                    *)
(*                                                                         *)
(* Strings are sequences of one-character strings, so that len(), slicing, *)
(* " ".join() and str.split() are computed rather than assumed.            *)
(***************************************************************************)
EXTENDS Integers, Sequences, FiniteSets, TLC

VARIABLES
    \* ---- split_into_chunks(text, max_length) ----
    text,            \* argument: the text to split
    max_length,      \* argument: the soft cap on a chunk's length
    words,           \* text.split()
    chunks,          \* the chunks emitted so far
    current_chunk,   \* the words of the open chunk
    current_length,  \* the running length of the open chunk
    wi,              \* position of the for loop in words (next word to visit)
    spc,             \* position of split_into_chunks
    \* ---- the Corpus Store ----
    corpus,          \* the records of "TextChunk", in the order the iterator yields them
    \* ---- retrieve_relevant_chunks(query, top_k) ----
    query,           \* argument: the question
    top_k,           \* argument: how many chunks to return
    query_vector,    \* model.encode(query)
    r_chunks,        \* the local list chunks of (content, similarity) pairs
    ri,              \* position of the for loop in the collection (next item)
    top_chunks,      \* the returned list
    rpc,             \* position of retrieve_relevant_chunks
    \* ---- answer_question(query) ----
    relevant_chunks, \* what retrieve_relevant_chunks returned
    context,         \* the joined chunks
    prompt,          \* the assembled prompt
    qa_prompts,      \* the prompts passed to qa_pipeline so far
    generated_text,  \* response[0]['generated_text']
    answer,          \* the returned text
    error,           \* the exception that left answer_question, or "none"
    apc,             \* position of answer_question
    stages,          \* the external calls of the current invocation, in order
    \* ---- the notebook session: client, collection, cells ----
    connected,       \* the connection of client is open
    opens,           \* how many times a connection was opened
    closes,          \* how many times client.close() closed a connection
    collection_exists, \* client.collections.exists("TextChunk")
    creations,       \* how many times client.collections.create ran
    corpus0,         \* the records the collection held when the session began
    encoder,         \* model.encode on the chunks: a fixed function of the text
    runs,            \* how many times each cell was started, and how many
                     \* answers the query cells printed
    ingested,        \* how many runs of the ingestion cell completed
    ii,              \* position of the ingestion loop in chunks (next chunk)
    npc              \* the cell that is running, "idle" between cells

svars == <<text, max_length, words, chunks, current_chunk, current_length, wi, spc>>

rvars == <<query, top_k, query_vector, r_chunks, ri, top_chunks, rpc>>

avars == <<relevant_chunks, context, prompt, qa_prompts, generated_text, answer, error, apc>>

nvars == <<connected, opens, closes, collection_exists, creations, corpus0,
           encoder, runs, ingested, ii, npc>>

vars == <<svars, corpus, rvars, avars, stages, nvars>>

(***************************************************************************)
(* Bounds of the model.                                                    *)
(***************************************************************************)
MaxTextLen == 5
MaxMaxLength == 3
MaxCorpus == 3
MaxK == 4
MaxNegK == 2
MaxGenLen == 11
MaxCellRuns == 2

(***************************************************************************)
(* Helpers on sequences.                                                   *)
(***************************************************************************)
Min(a, b) == IF a <= b THEN a ELSE b

Max(a, b) == IF a >= b THEN a ELSE b

\* the characters a text is made of; " " and "\n" are whitespace
Letters == {"a", "b"}

Whitespace == {" ", "\n"}

Alphabet == Letters \cup Whitespace

\* sep.join(parts) of Python, on sequences of characters
RECURSIVE Join(_, _)
Join(parts, sep) ==
    IF parts = <<>> THEN <<>>
    ELSE IF Len(parts) = 1 THEN parts[1]
    ELSE parts[1] \o sep \o Join(Tail(parts), sep)

\* text.split() of Python with no argument: the maximal runs of
\* non-whitespace characters, in order; no empty words
RECURSIVE SplitFrom(_, _, _, _)
SplitFrom(t, i, cur, acc) ==
    IF i > Len(t)
    THEN IF cur = <<>> THEN acc ELSE Append(acc, cur)
    ELSE IF t[i] \in Whitespace
         THEN SplitFrom(t, i + 1, <<>>, IF cur = <<>> THEN acc ELSE Append(acc, cur))
         ELSE SplitFrom(t, i + 1, Append(cur, t[i]), acc)

Split(t) == SplitFrom(t, 1, <<>>, <<>>)

(***************************************************************************)
(* split_into_chunks                                                       *)
(***************************************************************************)
\* the text of the spec's end-to-end scenario, "a b c d"
ScenarioText == <<"a", " ", "b", " ", "c", " ", "d">>

Texts == (UNION {[1..n -> Alphabet] : n \in 0..MaxTextLen}) \cup {ScenarioText}

MaxLengths == 1..MaxMaxLength

\* a plausible slip: strict comparison
FitsStrict(len, word, maxlen) == len + Len(word) < maxlen

\* line 172: if current_length + len(word) <= max_length
Fits(len, word, maxlen) == len + Len(word) <= maxlen

\* a plausible slip: the separator is not counted
LengthNoSeparator(word) == Len(word)

\* a plausible slip: the separator is counted twice
LengthTwoSeparators(word) == Len(word) + 2

\* lines 174 and 178: len(word) + 1, the word and one separator
LengthWithSeparator(word) == Len(word) + 1

\* split_into_chunks is not running
SplitIdle ==
    /\ text = <<>>
    /\ max_length = 500
    /\ words = <<>>
    /\ chunks = <<>>
    /\ current_chunk = <<>>
    /\ current_length = 0
    /\ wi = 1
    /\ spc = "idle"

\* retrieve_relevant_chunks is not running
RetrieveIdle ==
    /\ query = <<>>
    /\ top_k = 3
    /\ query_vector = <<>>
    /\ r_chunks = <<>>
    /\ ri = 1
    /\ top_chunks = <<>>
    /\ rpc = "idle"

\* answer_question is not running
AnswerIdle ==
    /\ relevant_chunks = <<>>
    /\ context = <<>>
    /\ prompt = <<>>
    /\ qa_prompts = <<>>
    /\ generated_text = <<>>
    /\ answer = <<>>
    /\ error = "none"
    /\ apc = "idle"

\* model.encode before any chunk was given to it
DefaultEncoder == [c \in {} |-> <<>>]

\* outside a notebook session: the client is connected, the collection
\* exists and no cell is running
SessionIdle ==
    /\ stages = <<>>
    /\ connected = TRUE
    /\ opens = 1
    /\ closes = 0
    /\ collection_exists = TRUE
    /\ creations = 0
    /\ corpus0 = corpus
    /\ encoder = DefaultEncoder
    /\ runs = [connection |-> 0, ingestion |-> 0, query |-> 0, answered |-> 0]
    /\ ingested = 0
    /\ ii = 1
    /\ npc = "idle"

SplitInit ==
    /\ text \in Texts
    /\ max_length \in MaxLengths
    /\ words = <<>>
    /\ chunks = <<>>
    /\ current_chunk = <<>>
    /\ current_length = 0
    /\ wi = 1
    /\ spc = "call"
    /\ corpus = <<>>
    /\ RetrieveIdle
    /\ AnswerIdle
    /\ SessionIdle

\* lines 166-169: words = text.split(); chunks = []; current_chunk = [];
\* current_length = 0
SplitCall ==
    /\ spc = "call"
    /\ words' = Split(text)
    /\ chunks' = <<>>
    /\ current_chunk' = <<>>
    /\ current_length' = 0
    /\ wi' = 1
    /\ spc' = "loop"
    /\ UNCHANGED <<text, max_length>>
    /\ UNCHANGED <<corpus, rvars, avars, stages, nvars>>

\* lines 171-174: the word fits and joins the open chunk
SplitAppendWord ==
    /\ spc = "loop"
    /\ wi <= Len(words)
    /\ Fits(current_length, words[wi], max_length)
    /\ current_chunk' = Append(current_chunk, words[wi])
    /\ current_length' = current_length + LengthWithSeparator(words[wi])
    /\ wi' = wi + 1
    /\ UNCHANGED <<text, max_length, words, chunks, spc>>
    /\ UNCHANGED <<corpus, rvars, avars, stages, nvars>>

\* lines 175-178: the word does not fit; the open chunk is emitted, whatever
\* it holds, and a new chunk starts with the word
SplitCloseChunk ==
    /\ spc = "loop"
    /\ wi <= Len(words)
    /\ ~Fits(current_length, words[wi], max_length)
    /\ chunks' = Append(chunks, Join(current_chunk, <<" ">>))
    /\ current_chunk' = <<words[wi]>>
    /\ current_length' = LengthWithSeparator(words[wi])
    /\ wi' = wi + 1
    /\ UNCHANGED <<text, max_length, words, spc>>
    /\ UNCHANGED <<corpus, rvars, avars, stages, nvars>>

\* lines 180-183: the last open chunk is emitted if it is not empty; return
SplitReturn ==
    /\ spc = "loop"
    /\ wi > Len(words)
    /\ chunks' = IF current_chunk # <<>>
                 THEN Append(chunks, Join(current_chunk, <<" ">>))
                 ELSE chunks
    /\ spc' = "done"
    /\ UNCHANGED <<text, max_length, words, current_chunk, current_length, wi>>
    /\ UNCHANGED <<corpus, rvars, avars, stages, nvars>>

SplitNext == SplitCall \/ SplitAppendWord \/ SplitCloseChunk \/ SplitReturn

SpecSplit == SplitInit /\ [][SplitNext]_vars

(***************************************************************************)
(* Properties of split_into_chunks                                         *)
(***************************************************************************)
SplitDone == spc = "done"

\* the words of T.split() joined by single spaces
Normalized(t) == Join(Split(t), <<" ">>)

\* C1: for every text T and max_length L > 0, the chunks returned by
\* split_into_chunks(T, L) joined with single spaces are exactly the
\* whitespace-normalized word sequence of T, and no chunk is empty.
C1_RoundTrip ==
    SplitDone =>
        /\ Join(chunks, <<" ">>) = Normalized(text)
        /\ \A i \in 1..Len(chunks) : chunks[i] # <<>>

ScenarioDone == SplitDone /\ text = ScenarioText /\ max_length = 3

\* C2 as stated: split("a b c d", 3) returns the three chunks
\* ["a b", "c", "d"].
C2_ScenarioThreeChunks ==
    ScenarioDone => chunks = << <<"a", " ", "b">>, <<"c">>, <<"d">> >>

\* C2 as amended: split("a b c d", 3) returns the two chunks ["a b", "c d"]:
\* after "c" opens the second chunk the running length is 2, and 2 + len("d")
\* = 3 <= 3 admits "d" to it.
C2_ScenarioTwoChunks ==
    ScenarioDone => chunks = << <<"a", " ", "b">>, <<"c", " ", "d">> >>

C2_Witness == ScenarioDone /\ Len(chunks) = 2

\* C3: every returned chunk has length <= max_length unless it consists of
\* exactly one word that is itself longer than max_length; a word longer than
\* max_length never shares its chunk with another word.
C3_SoftCap ==
    SplitDone =>
        \A i \in 1..Len(chunks) :
            /\ Len(chunks[i]) <= max_length \/ Split(chunks[i]) = <<chunks[i]>>
            /\ \A k \in 1..Len(Split(chunks[i])) :
                   Len(Split(chunks[i])[k]) > max_length => Len(Split(chunks[i])) = 1

\* an over-length word that is not the first word sits alone in its chunk,
\* next to a chunk that respects the cap
C3_Witness ==
    /\ SplitDone
    /\ \E i \in 2..Len(chunks) : Len(chunks[i]) > max_length
    /\ \E j \in 1..Len(chunks) : chunks[j] # <<>> /\ Len(chunks[j]) <= max_length

NoWhitespace(t) == \A i \in 1..Len(t) : t[i] \notin Whitespace

\* C4: a text that is a single word with no whitespace yields exactly one
\* chunk, equal to that word, for every max_length > 0.
C4_SingleWord ==
    (SplitDone /\ text # <<>> /\ NoWhitespace(text)) => chunks = <<text>>

\* C15: an empty chunk is emitted in exactly one situation, as the first
\* chunk when the first word of the text is longer than max_length; every
\* other chunk holds at least one word; and a chunk boundary stands before a
\* word only if appending that word would have made the joined chunk longer
\* than max_length.
C15_EmptyChunkAndBoundaries ==
    SplitDone =>
        /\ \A i \in 1..Len(chunks) :
               chunks[i] = <<>> => (i = 1 /\ Len(Split(text)[1]) > max_length)
        /\ (Split(text) # <<>> /\ Len(Split(text)[1]) > max_length) => chunks[1] = <<>>
        /\ \A i \in 1..(Len(chunks) - 1) :
               Len(Join(Append(Split(chunks[i]), Split(chunks[i + 1])[1]), <<" ">>)) > max_length

\* the first word is too long, and a later boundary follows a chunk of words
C15_Witness ==
    /\ SplitDone
    /\ Len(chunks) >= 3
    /\ chunks[1] = <<>>

(***************************************************************************)
(* The corpus and the vectors                                              *)
(***************************************************************************)
\* n copies of the character c
Chars(c, n) == [i \in 1..n |-> c]

\* a chunk shorter than the fallback excerpt
ShortContent == <<"x", "x">>

\* a chunk longer than the fallback excerpt: 200 times "y", then "z"
LongContent == Chars("y", 200) \o <<"z">>

Contents == {ShortContent, LongContent}

\* vectors of dimension 2, written in tenths: <<9, 1>> is [0.9, 0.1]
Vecs == {<<10, 0>>, <<0, 10>>, <<9, 1>>, <<0, 0>>, <<0 - 10, 0>>}

\* what model.encode(query) may return
QueryVecs == {<<10, 0>>, <<0, 0>>}

Records == [content : Contents, vector : Vecs]

Corpora == UNION {[1..n -> Records] : n \in 0..MaxCorpus}

Queries == {<<"w", "h", "o", "?">>}

RECURSIVE Dot(_, _)
Dot(a, b) == IF a = <<>> THEN 0 ELSE a[1] * b[1] + Dot(Tail(a), Tail(b))

Sgn(x) == IF x > 0 THEN 1 ELSE IF x < 0 THEN 0 - 1 ELSE 0

\* line 292: cosine_similarity([query_vector], [vector])[0][0], that is
\* dot(a, b) / (||a|| * ||b||), and 0 when a or b has no magnitude (sklearn
\* normalizes a zero row to itself).  The score is kept exactly, as the
\* fraction num/den = sgn(cos) * cos^2, which orders vectors as cos does.
CosineSimilarity(a, b) ==
    IF Dot(a, a) = 0 \/ Dot(b, b) = 0
    THEN [num |-> 0, den |-> 1]
    ELSE [num |-> Sgn(Dot(a, b)) * Dot(a, b) * Dot(a, b), den |-> Dot(a, a) * Dot(b, b)]

\* the order of the scores (den > 0)
ScoreGreater(s, t) == s.num * t.den > t.num * s.den

ScoreEqual(s, t) == s.num * t.den = t.num * s.den

ScoreGeq(s, t) == s.num * t.den >= t.num * s.den

(***************************************************************************)
(* retrieve_relevant_chunks                                                *)
(***************************************************************************)
\* a plausible slip: the list is never ordered
InsertAtEnd(sorted, e) == Append(sorted, e)

\* a plausible slip: an entry goes before the entries it ties with
InsertBeforeTies(sorted, e) ==
    LET n == Cardinality({i \in 1..Len(sorted) : ScoreGreater(sorted[i].similarity, e.similarity)})
    IN  SubSeq(sorted, 1, n) \o <<e>> \o SubSeq(sorted, n + 1, Len(sorted))

\* one step of line 296: sorted() is stable, also with reverse=True, so an
\* entry goes after every entry whose similarity is greater or equal
InsertByScore(sorted, e) ==
    LET n == Cardinality({i \in 1..Len(sorted) : ScoreGeq(sorted[i].similarity, e.similarity)})
    IN  SubSeq(sorted, 1, n) \o <<e>> \o SubSeq(sorted, n + 1, Len(sorted))

\* line 296: sorted(chunks, key=lambda x: x[1], reverse=True)
RECURSIVE SortChunks(_)
SortChunks(s) ==
    IF s = <<>> THEN <<>>
    ELSE InsertByScore(SortChunks(SubSeq(s, 1, Len(s) - 1)), s[Len(s)])

\* a plausible slip: one entry too many
SliceInclusive(s, k) ==
    IF k >= 0
    THEN SubSeq(s, 1, Min(k + 1, Len(s)))
    ELSE SubSeq(s, 1, Max(0, Len(s) + k + 1))

\* lines 297 and 324: s[:k] of Python; a negative k counts from the end
Slice(s, k) ==
    IF k >= 0
    THEN SubSeq(s, 1, Min(k, Len(s)))
    ELSE SubSeq(s, 1, Max(0, Len(s) + k))

\* line 297: [chunk[0] for chunk in ...]
ContentsOf(s) == [i \in 1..Len(s) |-> s[i].content]

TopKs == (0 - MaxNegK)..MaxK

\* a direct call retrieve_relevant_chunks(query, top_k)
RetrieveInit ==
    /\ SplitIdle
    /\ corpus \in Corpora
    /\ query \in Queries
    /\ top_k \in TopKs
    /\ query_vector = <<>>
    /\ r_chunks = <<>>
    /\ ri = 1
    /\ top_chunks = <<>>
    /\ rpc = "call"
    /\ AnswerIdle
    /\ SessionIdle

\* lines 282-284: query_vector = model.encode(query).tolist(); chunks = []
RetrieveCall ==
    /\ rpc = "call"
    /\ query_vector' \in QueryVecs
    /\ r_chunks' = <<>>
    /\ ri' = 1
    /\ rpc' = "scan"
    /\ stages' = Append(stages, "embed")
    /\ UNCHANGED <<query, top_k, top_chunks>>
    /\ UNCHANGED <<svars, corpus, avars, nvars>>

\* line 282: model.encode raises; nothing catches it
RetrieveEncodeFails ==
    /\ rpc = "call"
    /\ rpc' = "raised"
    /\ stages' = Append(stages, "embed")
    /\ UNCHANGED <<query, top_k, query_vector, r_chunks, ri, top_chunks>>
    /\ UNCHANGED <<svars, corpus, avars, nvars>>

\* lines 287-293: one item of collection.iterator(include_vector=True)
RetrieveScanItem ==
    /\ rpc = "scan"
    /\ ri <= Len(corpus)
    /\ r_chunks' = Append(r_chunks,
                          [content |-> corpus[ri].content,
                           similarity |-> CosineSimilarity(query_vector, corpus[ri].vector)])
    /\ ri' = ri + 1
    /\ UNCHANGED <<query, top_k, query_vector, top_chunks, rpc>>
    /\ UNCHANGED <<svars, corpus, avars, stages, nvars>>

\* lines 287 and 296-304: the iterator is exhausted, so the scan is complete;
\* sort, keep the first top_k contents, return
RetrieveReturn ==
    /\ rpc = "scan"
    /\ ri > Len(corpus)
    /\ r_chunks' = SortChunks(r_chunks)
    /\ top_chunks' = ContentsOf(Slice(r_chunks', top_k))
    /\ rpc' = "done"
    /\ stages' = Append(stages, "scan")
    /\ UNCHANGED <<query, top_k, query_vector, ri>>
    /\ UNCHANGED <<svars, corpus, avars, nvars>>

RetrieveNext == RetrieveCall \/ RetrieveEncodeFails \/ RetrieveScanItem \/ RetrieveReturn

SpecRetrieve == RetrieveInit /\ [][RetrieveNext]_vars

(***************************************************************************)
(* Properties of retrieve_relevant_chunks                                  *)
(***************************************************************************)
RetrieveDone == rpc = "done"

\* the (content, similarity) entries behind the returned contents
Returned == Slice(r_chunks, top_k)

\* the score of the i-th record of the corpus
ScoreOf(i) == CosineSimilarity(query_vector, corpus[i].vector)

\* C5: for every top_k <= 0 and every corpus, retrieve_relevant_chunks
\* returns an empty result (it has no path that raises).
C5_NonPositiveKEmpty ==
    (RetrieveDone /\ top_k <= 0) => top_chunks = <<>>

\* C6: for every top_k >= 0 and every corpus, retrieve_relevant_chunks
\* returns exactly min(top_k, |corpus|) entries.
C6_MinOfKAndCorpus ==
    (RetrieveDone /\ top_k >= 0) => Len(top_chunks) = Min(top_k, Len(corpus))

\* the corpus has more records than asked for and is cut to top_k
C6_Witness ==
    /\ RetrieveDone
    /\ top_k > 0
    /\ top_k < Len(corpus)
    /\ Len(top_chunks) = top_k

\* the spec's ranking scenario: vectors [1,0], [0,1], [0.9,0.1], query vector
\* [1,0], k = 2
RankScenario ==
    /\ Len(corpus) = 3
    /\ corpus[1].vector = <<10, 0>>
    /\ corpus[2].vector = <<0, 10>>
    /\ corpus[3].vector = <<9, 1>>
    /\ query_vector = <<10, 0>>
    /\ top_k = 2

\* C7: the returned entries are records of the corpus in non-increasing
\* order of score, no record left out scores strictly higher than a returned
\* one, and in the ranking scenario the result is chunk 1 then chunk 3.
C7_RankedByScore ==
    RetrieveDone =>
        /\ top_chunks = ContentsOf(Returned)
        /\ \A i, j \in 1..Len(Returned) :
               i < j => ScoreGeq(Returned[i].similarity, Returned[j].similarity)
        /\ \E f \in [1..Len(Returned) -> 1..Len(corpus)] :
               /\ \A i, j \in 1..Len(Returned) : i # j => f[i] # f[j]
               /\ \A j \in 1..Len(Returned) :
                      /\ corpus[f[j]].content = Returned[j].content
                      /\ ScoreOf(f[j]) = Returned[j].similarity
               /\ \A i \in 1..Len(corpus) :
                      (\A j \in 1..Len(Returned) : f[j] # i) =>
                          \A j \in 1..Len(Returned) :
                              ~ScoreGreater(ScoreOf(i), Returned[j].similarity)
        /\ RankScenario => top_chunks = <<corpus[1].content, corpus[3].content>>

C7_Witness ==
    /\ RetrieveDone
    /\ RankScenario
    /\ corpus[2].content # corpus[1].content
    /\ Len(top_chunks) = 2

\* the contents of the entries of s whose score equals t, in order
TiedContents(s, t) ==
    LET Tied(e) == ScoreEqual(e.similarity, t)
    IN  ContentsOf(SelectSeq(s, Tied))

\* the corpus with its scores, in enumeration order
Enumerated ==
    [i \in 1..Len(corpus) |-> [content |-> corpus[i].content, similarity |-> ScoreOf(i)]]

IsPrefix(p, s) == Len(p) <= Len(s) /\ p = SubSeq(s, 1, Len(p))

\* C8: stable tie-break: for every score, the returned entries with that
\* score are, in order, the first records with that score of the corpus
\* enumeration; so tied records keep their relative order, and of a tie
\* that straddles the cut the record enumerated earlier is kept.
C8_StableTies ==
    RetrieveDone =>
        \A j \in 1..Len(corpus) :
            IsPrefix(TiedContents(Returned, ScoreOf(j)), TiedContents(Enumerated, ScoreOf(j)))

\* a tie between records of different content straddles the cut
C8_Witness ==
    /\ RetrieveDone
    /\ top_k > 0
    /\ Len(Returned) < Len(r_chunks)
    /\ ScoreEqual(r_chunks[Len(Returned)].similarity, r_chunks[Len(Returned) + 1].similarity)
    /\ r_chunks[Len(Returned)].content # r_chunks[Len(Returned) + 1].content

(***************************************************************************)
(* answer_question                                                         *)
(***************************************************************************)
\* line 322: top = 5
Top == 5

\* line 347: the length below which an answer counts as too short
FallbackMinLength == 10

\* line 349: the length of the excerpt of the fallback chunk
ExcerptLength == 200

\* lines 331-341: the fixed parts of the prompt, around {context} and {query}
PromptHead == "\n        You are an helpfull assistant. Use the following context from a book to answer the user's question.\n        Only if you don't know the answer just say that you need more information.\n\n        Context:\n        "

PromptMiddle == "\n\n        Use 5 sentences minimum and keep the answer concise and accurate.\n\n        Question: "

PromptTail == "\n        Answer:"

\* lines 331-341: the f-string; the fixed parts are kept as single elements
AssemblePrompt(ctx, q) == <<PromptHead>> \o ctx \o <<PromptMiddle>> \o q \o <<PromptTail>>

\* line 349: the text between the generated text and the excerpt
FallbackOpen ==
    <<" ", "(", "A", "d", "d", "i", "t", "i", "o", "n", "a", "l", " ",
      "c", "o", "n", "t", "e", "x", "t", ":", " ">>

\* line 349: the text after the excerpt
FallbackClose == <<".", ".", ".", ")">>

\* a plausible slip: a text of exactly the minimum length counts as short
IsShortInclusive(t) == Len(t) <= FallbackMinLength

\* line 347: len(response[0]['generated_text']) < 10
IsShort(t) == Len(t) < FallbackMinLength

\* line 348: relevant_chunks[0], the most relevant chunk
FallbackChunk(cs) == cs[1]

\* line 349: f"{generated_text} (Additional context: {fallback_chunk[:200]}...)"
FallbackAnswer(gen, chunk) ==
    gen \o FallbackOpen \o Slice(chunk, ExcerptLength) \o FallbackClose

\* what qa_pipeline may generate
GeneratedTexts == {Chars("g", n) : n \in 0..MaxGenLen}

AnswerInit ==
    /\ SplitIdle
    /\ corpus \in Corpora
    /\ query \in Queries
    /\ top_k = 3
    /\ query_vector = <<>>
    /\ r_chunks = <<>>
    /\ ri = 1
    /\ top_chunks = <<>>
    /\ rpc = "idle"
    /\ relevant_chunks = <<>>
    /\ context = <<>>
    /\ prompt = <<>>
    /\ qa_prompts = <<>>
    /\ generated_text = <<>>
    /\ answer = <<>>
    /\ error = "none"
    /\ apc = "call"
    /\ SessionIdle

\* lines 322-323: top = 5; the call retrieve_relevant_chunks(query, top_k=top)
AnswerCall ==
    /\ apc = "call"
    /\ rpc = "idle"
    /\ top_k' = Top
    /\ rpc' = "call"
    /\ apc' = "retrieve"
    /\ UNCHANGED <<query, query_vector, r_chunks, ri, top_chunks>>
    /\ UNCHANGED <<relevant_chunks, context, prompt, qa_prompts, generated_text, answer, error>>
    /\ UNCHANGED <<svars, corpus, stages, nvars>>

\* lines 323-341: retrieve_relevant_chunks has returned; the context is
\* joined and the prompt assembled
AnswerAssemble ==
    /\ apc = "retrieve"
    /\ rpc = "done"
    /\ relevant_chunks' = top_chunks
    /\ context' = Join(Slice(top_chunks, Top), <<"\n">>)
    /\ prompt' = AssemblePrompt(context', query)
    /\ apc' = "generate"
    /\ UNCHANGED <<qa_prompts, generated_text, answer, error>>
    /\ UNCHANGED <<svars, corpus, rvars, stages, nvars>>

\* line 323: retrieve_relevant_chunks raised; nothing catches it
AnswerRetrieveRaised ==
    /\ apc = "retrieve"
    /\ rpc = "raised"
    /\ error' = "EmbeddingError"
    /\ apc' = "raised"
    /\ UNCHANGED <<relevant_chunks, context, prompt, qa_prompts, generated_text, answer>>
    /\ UNCHANGED <<svars, corpus, rvars, stages, nvars>>

\* line 344: response = qa_pipeline(prompt, max_length=200, truncation=True)
AnswerGenerate ==
    /\ apc = "generate"
    /\ qa_prompts' = Append(qa_prompts, prompt)
    /\ generated_text' \in GeneratedTexts
    /\ apc' = "check"
    /\ stages' = Append(stages, "generate")
    /\ UNCHANGED <<relevant_chunks, context, prompt, answer, error>>
    /\ UNCHANGED <<svars, corpus, rvars, nvars>>

\* a plausible slip: a failed generation is tried again
AnswerGenerateRetries ==
    /\ apc = "generate"
    /\ qa_prompts' = Append(qa_prompts, prompt)
    /\ Len(stages) < 4
    /\ stages' = Append(stages, "generate")
    /\ UNCHANGED <<relevant_chunks, context, prompt, generated_text, answer, error, apc>>
    /\ UNCHANGED <<svars, corpus, rvars, nvars>>

\* line 344: qa_pipeline raises; nothing catches it
AnswerGenerateFails ==
    /\ apc = "generate"
    /\ qa_prompts' = Append(qa_prompts, prompt)
    /\ stages' = Append(stages, "generate")
    /\ error' = "GenerationError"
    /\ apc' = "raised"
    /\ UNCHANGED <<relevant_chunks, context, prompt, generated_text, answer>>
    /\ UNCHANGED <<svars, corpus, rvars, nvars>>

\* lines 347-349: the answer is too short and there is a chunk to fall back on
AnswerFallback ==
    /\ apc = "check"
    /\ IsShort(generated_text)
    /\ relevant_chunks # <<>>
    /\ answer' = FallbackAnswer(generated_text, FallbackChunk(relevant_chunks))
    /\ apc' = "done"
    /\ UNCHANGED <<relevant_chunks, context, prompt, qa_prompts, generated_text, error>>
    /\ UNCHANGED <<svars, corpus, rvars, stages, nvars>>

\* lines 347-348: the answer is too short and relevant_chunks is empty:
\* relevant_chunks[0] raises IndexError
AnswerIndexError ==
    /\ apc = "check"
    /\ IsShort(generated_text)
    /\ relevant_chunks = <<>>
    /\ error' = "IndexError"
    /\ apc' = "raised"
    /\ UNCHANGED <<relevant_chunks, context, prompt, qa_prompts, generated_text, answer>>
    /\ UNCHANGED <<svars, corpus, rvars, stages, nvars>>

\* line 351: return response[0]['generated_text']
AnswerReturn ==
    /\ apc = "check"
    /\ ~IsShort(generated_text)
    /\ answer' = generated_text
    /\ apc' = "done"
    /\ UNCHANGED <<relevant_chunks, context, prompt, qa_prompts, generated_text, error>>
    /\ UNCHANGED <<svars, corpus, rvars, stages, nvars>>

AnswerNext ==
    \/ AnswerCall
    \/ RetrieveCall
    \/ RetrieveEncodeFails
    \/ AnswerRetrieveRaised
    \/ RetrieveScanItem
    \/ RetrieveReturn
    \/ AnswerAssemble
    \/ AnswerGenerate
    \/ AnswerGenerateFails
    \/ AnswerFallback
    \/ AnswerIndexError
    \/ AnswerReturn

SpecAnswer == AnswerInit /\ [][AnswerNext]_vars

(***************************************************************************)
(* Properties of answer_question                                           *)
(***************************************************************************)
AnswerDone == apc = "done"

\* C9: when the ranked result is not empty, the fallback is applied if and
\* only if the generated text is shorter than 10 characters: the returned
\* text is then the generated text, followed by the label and an excerpt of
\* at most the first 200 characters of the highest-ranked chunk; otherwise
\* the returned text is the generated text unchanged.
C9_FallbackIffShort ==
    (AnswerDone /\ relevant_chunks # <<>>) =>
        IF Len(generated_text) < 10
        THEN /\ IsPrefix(generated_text, answer)
             /\ \E n \in 0..200 :
                    /\ n = Min(200, Len(r_chunks[1].content))
                    /\ answer = generated_text \o FallbackOpen
                                  \o SubSeq(r_chunks[1].content, 1, n) \o FallbackClose
        ELSE answer = generated_text

\* the fallback is applied with a chunk longer than the excerpt, ranked
\* above a shorter one
C9_Witness ==
    /\ AnswerDone
    /\ Len(generated_text) = 9
    /\ Len(relevant_chunks) > 1
    /\ Len(relevant_chunks[1]) > 200
    /\ relevant_chunks[Len(relevant_chunks)] # relevant_chunks[1]
    /\ Len(answer) = 9 + Len(FallbackOpen) + 200 + Len(FallbackClose)

\* C10: when the ranker returns an empty result, answer_question ends with a
\* distinct "no context available" outcome: it raises no error, sends no
\* prompt to the generation gateway, and returns nothing that reads as a
\* normal answer.
C10_NoContextOutcome ==
    (rpc = "done" /\ top_chunks = <<>> /\ apc \in {"generate", "check", "done", "raised"}) =>
        /\ apc # "raised"
        /\ qa_prompts = <<>>
        /\ apc = "done" => (error = "NoContext" /\ answer # generated_text)

\* the external calls of one complete invocation
AllStages == <<"embed", "scan", "generate">>

\* C14: every answer_question invocation makes, in this order and each at
\* most once, one embedding call, one full scan of the corpus and one
\* generation call; a stage starts only after the one before it has ended, a
\* failed call is not repeated, and the records of the corpus stay as they
\* were.
C14_OneCallPerStage ==
    /\ IsPrefix(stages, AllStages)
    /\ Len(qa_prompts) <= 1
    /\ Len(qa_prompts) = 1 <=> Len(stages) = 3
    /\ Len(stages) >= 2 => (ri = Len(corpus) + 1 /\ Len(r_chunks) = Len(corpus))
    /\ apc \in {"generate", "check", "done"} => Len(stages) >= 2
    /\ apc = "done" => stages = AllStages
    /\ corpus = corpus0

\* a complete invocation over a corpus of several records
C14_Witness ==
    /\ AnswerDone
    /\ Len(corpus) >= 2
    /\ stages = AllStages

(***************************************************************************)
(* The notebook session: connection cell, ingestion cell, query cells      *)
(***************************************************************************)
\* the chunk texts of the session
ChunkA == <<"a">>

ChunkB == <<"b">>

\* line 192: chunks = split_into_chunks(book_text), the list the ingestion
\* cell uploads
SessionChunkLists == {<<>>, <<ChunkA, ChunkB>>, <<ChunkA, ChunkA>>}

\* line 221: model.encode(chunk).tolist(), one vector per text
Encoders == [{ChunkA, ChunkB} -> QueryVecs]

\* what a collection left by an earlier session may hold
EarlierCorpora == {<<>>, <<[content |-> ShortContent, vector |-> <<9, 1>>]>>}

\* a plausible slip: the collection is created without the existence test
AlwaysCreate(exists) == TRUE

\* line 117: if not client.collections.exists("TextChunk")
ShouldCreate(exists) == ~exists

\* a plausible slip: a record that is already stored is skipped
InsertIfAbsent(store, record) ==
    IF \E i \in 1..Len(store) : store[i] = record THEN store ELSE Append(store, record)

\* line 223: collection_object.data.insert(properties=props, vector=vector)
InsertRecord(store, record) == Append(store, record)

\* client.connect(): opens the connection unless it is open already
ConnectOpens == IF connected THEN opens ELSE opens + 1

SessionInit ==
    /\ text = <<>>
    /\ max_length = 500
    /\ words = <<>>
    /\ chunks \in SessionChunkLists
    /\ current_chunk = <<>>
    /\ current_length = 0
    /\ wi = 1
    /\ spc = "idle"
    /\ collection_exists \in BOOLEAN
    /\ corpus0 \in (IF collection_exists THEN EarlierCorpora ELSE {<<>>})
    /\ corpus = corpus0
    /\ RetrieveIdle
    /\ AnswerIdle
    /\ stages = <<>>
    /\ connected = FALSE
    /\ opens = 0
    /\ closes = 0
    /\ creations = 0
    /\ encoder \in Encoders
    /\ runs = [connection |-> 0, ingestion |-> 0, query |-> 0, answered |-> 0]
    /\ ingested = 0
    /\ ii = 1
    /\ npc = "idle"

\* lines 108-130: a new client is connected (the client of an earlier run is
\* not closed), client.connect() finds it connected, and the collection is
\* created, empty, if it does not exist; client.close() is commented out
ConnectionCell ==
    /\ npc = "idle"
    /\ runs.connection < MaxCellRuns
    /\ runs' = [runs EXCEPT !.connection = @ + 1]
    /\ connected' = TRUE
    /\ opens' = opens + 1
    /\ IF ShouldCreate(collection_exists)
       THEN /\ collection_exists' = TRUE
            /\ creations' = creations + 1
            /\ corpus' = <<>>
       ELSE UNCHANGED <<collection_exists, creations, corpus>>
    /\ UNCHANGED <<closes, corpus0, encoder, ingested, ii, npc>>
    /\ UNCHANGED <<svars, rvars, avars, stages>>

\* lines 216-220: the ingestion cell starts; client must be defined
IngestionStart ==
    /\ npc = "idle"
    /\ opens > 0
    /\ runs.ingestion < MaxCellRuns
    /\ runs' = [runs EXCEPT !.ingestion = @ + 1]
    /\ ii' = 1
    /\ npc' = "ingestion"
    /\ UNCHANGED <<connected, opens, closes, collection_exists, creations, corpus0,
                   encoder, ingested>>
    /\ UNCHANGED <<svars, corpus, rvars, avars, stages>>

\* lines 220-223: one chunk is embedded and inserted
IngestionInsert ==
    /\ npc = "ingestion"
    /\ ii <= Len(chunks)
    /\ connected
    /\ corpus' = InsertRecord(corpus, [content |-> chunks[ii], vector |-> encoder[chunks[ii]]])
    /\ ii' = ii + 1
    /\ UNCHANGED <<connected, opens, closes, collection_exists, creations, corpus0,
                   encoder, runs, ingested, npc>>
    /\ UNCHANGED <<svars, rvars, avars, stages>>

\* line 223: the client was closed by a query cell; insert raises and the
\* cell stops
IngestionClosedClient ==
    /\ npc = "ingestion"
    /\ ii <= Len(chunks)
    /\ ~connected
    /\ npc' = "idle"
    /\ UNCHANGED <<connected, opens, closes, collection_exists, creations, corpus0,
                   encoder, runs, ingested, ii>>
    /\ UNCHANGED <<svars, corpus, rvars, avars, stages>>

\* line 225: every chunk was inserted
IngestionFinish ==
    /\ npc = "ingestion"
    /\ ii > Len(chunks)
    /\ ingested' = ingested + 1
    /\ npc' = "idle"
    /\ UNCHANGED <<connected, opens, closes, collection_exists, creations, corpus0,
                   encoder, runs, ii>>
    /\ UNCHANGED <<svars, corpus, rvars, avars, stages>>

\* lines 414-417 (and 456-459, 498-501): client.connect(), client.is_ready()
\* holds, answer_question(questions[questionNo]) is called
QueryCellStart ==
    /\ npc = "idle"
    /\ opens > 0
    /\ runs.query < MaxCellRuns
    /\ runs' = [runs EXCEPT !.query = @ + 1]
    /\ connected' = TRUE
    /\ opens' = ConnectOpens
    /\ query' \in Queries
    /\ top_k' = 3
    /\ query_vector' = <<>>
    /\ r_chunks' = <<>>
    /\ ri' = 1
    /\ top_chunks' = <<>>
    /\ rpc' = "idle"
    /\ relevant_chunks' = <<>>
    /\ context' = <<>>
    /\ prompt' = <<>>
    /\ qa_prompts' = <<>>
    /\ generated_text' = <<>>
    /\ answer' = <<>>
    /\ error' = "none"
    /\ apc' = "call"
    /\ stages' = <<>>
    /\ npc' = "query"
    /\ UNCHANGED <<closes, collection_exists, creations, corpus0, encoder, ingested, ii>>
    /\ UNCHANGED <<svars, corpus>>

\* lines 414-415 and 422: client.connect(), client.is_ready() does not hold,
\* the question is skipped, client.close()
QueryCellNotReady ==
    /\ npc = "idle"
    /\ opens > 0
    /\ runs.query < MaxCellRuns
    /\ runs' = [runs EXCEPT !.query = @ + 1]
    /\ opens' = ConnectOpens
    /\ connected' = FALSE
    /\ closes' = closes + 1
    /\ UNCHANGED <<collection_exists, creations, corpus0, encoder, ingested, ii, npc>>
    /\ UNCHANGED <<svars, corpus, rvars, avars, stages>>

\* the locals of answer_question and retrieve_relevant_chunks are gone when
\* the call is over
CallOver ==
    /\ query' = <<>>
    /\ top_k' = 3
    /\ query_vector' = <<>>
    /\ r_chunks' = <<>>
    /\ ri' = 1
    /\ top_chunks' = <<>>
    /\ rpc' = "idle"
    /\ relevant_chunks' = <<>>
    /\ context' = <<>>
    /\ prompt' = <<>>
    /\ qa_prompts' = <<>>
    /\ generated_text' = <<>>
    /\ answer' = <<>>
    /\ error' = "none"
    /\ apc' = "idle"
    /\ stages' = <<>>

\* lines 417-422: answer_question returned, the answer is printed,
\* client.close()
QueryCellFinish ==
    /\ npc = "query"
    /\ apc = "done"
    /\ CallOver
    /\ connected' = FALSE
    /\ closes' = closes + 1
    /\ runs' = [runs EXCEPT !.answered = @ + 1]
    /\ npc' = "idle"
    /\ UNCHANGED <<opens, collection_exists, creations, corpus0, encoder, ingested, ii>>
    /\ UNCHANGED <<svars, corpus>>

\* line 417: answer_question raised; the cell stops there and client.close()
\* at line 422 is not reached
QueryCellAbort ==
    /\ npc = "query"
    /\ apc = "raised"
    /\ CallOver
    /\ npc' = "idle"
    /\ UNCHANGED <<connected, opens, closes, collection_exists, creations, corpus0,
                   encoder, runs, ingested, ii>>
    /\ UNCHANGED <<svars, corpus>>

\* the kernel stops; the notebook has no cell that runs at shutdown
EndSession ==
    /\ npc = "idle"
    /\ npc' = "ended"
    /\ UNCHANGED <<connected, opens, closes, collection_exists, creations, corpus0,
                   encoder, runs, ingested, ii>>
    /\ UNCHANGED <<svars, corpus, rvars, avars, stages>>

SessionNext ==
    \/ ConnectionCell
    \/ IngestionStart
    \/ IngestionInsert
    \/ IngestionClosedClient
    \/ IngestionFinish
    \/ QueryCellStart
    \/ QueryCellNotReady
    \/ AnswerCall
    \/ RetrieveCall
    \/ RetrieveEncodeFails
    \/ AnswerRetrieveRaised
    \/ RetrieveScanItem
    \/ RetrieveReturn
    \/ AnswerAssemble
    \/ AnswerGenerate
    \/ AnswerGenerateFails
    \/ AnswerFallback
    \/ AnswerIndexError
    \/ AnswerReturn
    \/ QueryCellFinish
    \/ QueryCellAbort
    \/ EndSession

SpecSession == SessionInit /\ [][SessionNext]_vars

(***************************************************************************)
(* Properties of the notebook session                                      *)
(***************************************************************************)
\* C11: in a session that runs the connection cell once, the connection is
\* acquired once, stays open while the ingestion cell and every query cell
\* run, is not closed before shutdown, and is closed exactly once when the
\* session has ended, whatever happened in answer_question.
C11_ConnectionScoped ==
    runs.connection = 1 =>
        /\ opens = 1
        /\ closes <= 1
        /\ npc \in {"ingestion", "query"} => connected
        /\ closes > 0 => npc = "ended"
        /\ npc = "ended" => (~connected /\ closes = 1)

\* C12: the collection is created at most once; once it exists it keeps
\* existing, no step creates it again, and a run of the connection cell
\* leaves its records as they were.
C12_CreatedAtMostOnce ==
    /\ [](creations <= 1)
    /\ [][collection_exists =>
             /\ collection_exists'
             /\ creations' = creations
             /\ runs'.connection # runs.connection => corpus' = corpus]_vars

\* the connection cell has run again on a collection that holds records
C12_Witness ==
    /\ runs.connection = 2
    /\ creations = 1
    /\ Len(corpus) > Len(corpus0)
    /\ npc = "idle"

\* the list s repeated n times
RECURSIVE Repeat(_, _)
Repeat(s, n) == IF n = 0 THEN <<>> ELSE s \o Repeat(s, n - 1)

\* C13: every completed run of the ingestion cell appends one record per
\* chunk, in order, whatever the collection holds already: after n runs the
\* collection holds n * |chunks| records more than at the start.
C13_IngestionAppends ==
    /\ npc # "ingestion" =>
           /\ Len(corpus) = Len(corpus0) + ingested * Len(chunks)
           /\ ContentsOf(corpus) = ContentsOf(corpus0) \o Repeat(chunks, ingested)
    /\ npc = "ingestion" =>
           Len(corpus) = Len(corpus0) + ingested * Len(chunks) + (ii - 1)

\* the same two chunks were uploaded twice
C13_Witness ==
    /\ npc = "idle"
    /\ ingested = 2
    /\ Len(chunks) = 2
    /\ Len(corpus) = Len(corpus0) + 4

====
